---- MODULE Spec2Model ----
(***************************************************************************)
(* Model of the campus path finder (src/main.py): the module-level graph   *)
(* G, the /shortest-path handler get_path, and its helpers                 *)
(* calculate_bearing and get_turn_instruction.                             *)
(*                                                                         *)
(* Units.  Python floats are modelled by integers on fixed grids:          *)
(*   latitude, longitude : milli-degrees (0.001 deg = 1)                   *)
(*   bearing, turn angle : milli-degrees (90 deg = 90000)                  *)
(*   edge length         : eighths of a metre (100 m = 800); every value   *)
(*                         on this grid is an exact binary float, so       *)
(*                         round() ties are real ties                      *)
(*   response "distance" : hundredths of a metre (round(d, 2)), 180.0 m =  *)
(*                         18000                                           *)
(*   direction distance  : whole metres (round(length))                    *)
(* Radians and the values of sin, cos, atan2 are fixed-point numbers with  *)
(* Scale units to 1.                                                       *)
(***************************************************************************)
EXTENDS Integers, Sequences, FiniteSets, TLC

VARIABLES
    G,        \* the module-level graph (main.py:20-21)
    G_loaded, \* history: the graph as it was when start-up finished
    pc,       \* per request slot: "idle", "received" (after await request.json()), "done"
    req,      \* per request slot: the JSON body of the request
    resp,     \* per request slot: what the caller gets back
    frame,    \* per request slot: the handler's local variables at its end
    tphase,   \* turn arithmetic on its own: "off", "input", "head", "turn"
    tin,      \* turn arithmetic on its own: bearing1, bearing2 and the edge data
    tout      \* turn arithmetic on its own: the first instruction and the turn computed

vars == <<G, G_loaded, pc, req, resp, frame, tphase, tin, tout>>

None == [none |-> TRUE]

(***************************************************************************)
(* Integer helpers                                                         *)
(***************************************************************************)
Abs(a) == IF a < 0 THEN -a ELSE a

Sgn(a) == IF a < 0 THEN -1 ELSE IF a > 0 THEN 1 ELSE 0

\* nearest integer to n/d (d > 0), ties to the even neighbour: Python's round()
\* on a float that holds n/d exactly
RoundHalfEven(n, d) ==
    LET q == n \div d
        r == n % d
    IN  IF 2 * r < d THEN q
        ELSE IF 2 * r > d THEN q + 1
        ELSE IF q % 2 = 0 THEN q ELSE q + 1

\* round(length): eighths of a metre -> whole metres
round0(len8) == RoundHalfEven(len8, 8)

\* round(total_distance, 2): eighths of a metre -> hundredths of a metre
round2(len8) == RoundHalfEven(len8 * 100, 8)

(***************************************************************************)
(* Fixed-point model of the math module (sin, cos, atan2, radians,         *)
(* degrees), kept inside TLC's 32-bit integers.                            *)
(***************************************************************************)
Half == 10000

Scale == Half * Half

\* a * b / Scale without forming a * b
FMul(a, b) ==
    LET x == Abs(a)
        y == Abs(b)
        xh == x \div Half
        xl == x % Half
        yh == y \div Half
        yl == y % Half
    IN  Sgn(a) * Sgn(b) * (xh * yh + (xh * yl + xl * yh) \div Half + (xl * yl) \div Scale)

\* num / den as a fixed-point number, for 0 <= num <= den, den > 0, by long division
FDiv(num, den) ==
    LET q1 == (num * Half) \div den
        r1 == (num * Half) % den
    IN  q1 * Half + (r1 * Half) \div den

Pi == 314159265

\* math.radians of an angle in milli-degrees: x * pi / 180000 (|x| below 1.2 degrees)
radians(mdeg) == Sgn(mdeg) * ((Abs(mdeg) * 1745329) \div 1000)

\* math.degrees, to the nearest milli-degree: r * 180000 / pi, by long division
degrees(r) ==
    LET x == Abs(r)
        whole == x \div Pi
        n == ((x % Pi) \div 100) * 180
        d == Pi \div 100
    IN  Sgn(r) * (whole * 180000 + (n \div d) * 1000 + RoundHalfEven((n % d) * 500, d \div 2))

\* math.sin and math.cos by their Taylor series (arguments here are far below 1 radian)
SinTerms(r, r2) == r - FMul(r2, r) \div 6 + FMul(FMul(r2, r), r2) \div 120

sin(r) == SinTerms(r, FMul(r, r))

CosTerms(r2) == Scale - r2 \div 2 + FMul(r2, r2) \div 24

cos(r) == CosTerms(FMul(r, r))

\* arctan(num/den) for 0 <= num <= den, den > 0: the argument is first reduced below
\* tan(pi/8) with arctan(t) = pi/4 - arctan((1-t)/(1+t)), then the series is summed
ArctanTerms(q, q2) ==
    LET q3 == FMul(q, q2)
        q5 == FMul(q3, q2)
        q7 == FMul(q5, q2)
        q9 == FMul(q7, q2)
        q11 == FMul(q9, q2)
    IN  q - q3 \div 3 + q5 \div 5 - q7 \div 7 + q9 \div 9 - q11 \div 11

ArctanSeries(q) == ArctanTerms(q, FMul(q, q))

ArctanRatio(num, den) ==
    IF num * 100000 > den * 41421
    THEN Pi \div 4 - ArctanSeries(FDiv(den - num, den + num))
    ELSE ArctanSeries(FDiv(num, den))

\* the angle of the quadrant of (x, y), given the angle `first` of (|x|, |y|)
Quadrant(y, x, first) ==
    IF y < 0 THEN (IF x >= 0 THEN -first ELSE first - Pi)
    ELSE (IF x >= 0 THEN first ELSE Pi - first)

\* math.atan2(y, x) in (-pi, pi]; atan2(0, 0) = 0 as in C
atan2(y, x) ==
    Quadrant(y, x,
             IF y = 0 /\ x = 0 THEN 0
             ELSE IF Abs(y) <= Abs(x) THEN ArctanRatio(Abs(y), Abs(x))
             ELSE Pi \div 2 - ArctanRatio(Abs(x), Abs(y)))

(***************************************************************************)
(* calculate_bearing (main.py:26-33)                                       *)
(***************************************************************************)
calculate_bearing(lat1, lon1, lat2, lon2) ==
    LET dLon == radians(lon2 - lon1)
        y == FMul(sin(dLon), cos(radians(lat2)))
        x == FMul(cos(radians(lat1)), sin(radians(lat2)))
             - FMul(FMul(sin(radians(lat1)), cos(radians(lat2))), cos(dLon))
    IN  (degrees(atan2(y, x)) + 360000) % 360000

(***************************************************************************)
(* get_turn_instruction (main.py:35-50); the angle is in milli-degrees     *)
(***************************************************************************)
\* a variant of main.py:40-41 whose slight right ends below 65 degrees
get_turn_instruction_open(angle) ==
    IF -20000 <= angle /\ angle <= 20000 THEN "Continue straight"
    ELSE IF angle > 20000 /\ angle < 65000 THEN "Make a slight right"
    ELSE IF angle >= 65000 /\ angle <= 135000 THEN "Turn right"
    ELSE IF angle < -20000 /\ angle >= -65000 THEN "Make a slight left"
    ELSE IF angle < -65000 /\ angle >= -135000 THEN "Turn left"
    ELSE IF angle > 135000 THEN "Make a sharp right"
    ELSE "Make a sharp left"

get_turn_instruction(angle) ==
    IF -20000 <= angle /\ angle <= 20000 THEN "Continue straight"
    ELSE IF angle > 20000 /\ angle <= 65000 THEN "Make a slight right"
    ELSE IF angle > 65000 /\ angle <= 135000 THEN "Turn right"
    ELSE IF angle < -20000 /\ angle >= -65000 THEN "Make a slight left"
    ELSE IF angle < -65000 /\ angle >= -135000 THEN "Turn left"
    ELSE IF angle > 135000 THEN "Make a sharp right"
    ELSE "Make a sharp left"

(***************************************************************************)
(* The graph.  A graph is [nodes |-> [id -> [y |-> lat, x |-> lon]],       *)
(* adj |-> [<<u, v>> -> [key -> attribute dict]]]; an attribute dict is a  *)
(* function from attribute names to values.  A street name is              *)
(* [kind |-> "str", str |-> s] or [kind |-> "list", list |-> <<s1, ..>>],  *)
(* the two shapes osmnx stores.                                            *)
(***************************************************************************)
\* dict.get(key, default)
Get(dict, key, default) == IF key \in DOMAIN dict THEN dict[key] ELSE default

\* Python's seq[i], i counted from 0
At(seq, i) == seq[i + 1]

Min(S) == CHOOSE a \in S : \A b \in S : a <= b

Reverse(pair) == <<pair[2], pair[1]>>

\* a variant of main.py:21 that keeps the graph directed
keep_directed(D) == D

\* MultiDiGraph.to_undirected() (main.py:21): every edge can be walked both ways
to_undirected(D) ==
    LET pairs == DOMAIN D.adj \cup {Reverse(e) : e \in DOMAIN D.adj}
        keys(e) == IF e \in DOMAIN D.adj THEN DOMAIN D.adj[e] ELSE {}
        both(e) == [k \in keys(e) \cup keys(Reverse(e)) |->
                       IF k \in keys(e) THEN D.adj[e][k] ELSE D.adj[Reverse(e)][k]]
    IN  [nodes |-> D.nodes, adj |-> [e \in pairs |-> both(e)]]

\* G.get_edge_data(u, v): the key -> attribute dict of the edges between u and v
get_edge_data(g, u, v) == g.adj[<<u, v>>]

\* ox.distance.nearest_nodes(G, X, Y) (main.py:72-73): the node closest to the point;
\* among equally close nodes the lowest id
nearest_nodes(g, X, Y) ==
    LET d2(n) == (g.nodes[n].x - X) * (g.nodes[n].x - X) + (g.nodes[n].y - Y) * (g.nodes[n].y - Y)
    IN  CHOOSE n \in DOMAIN g.nodes :
            \A m \in DOMAIN g.nodes : d2(n) < d2(m) \/ (d2(n) = d2(m) /\ n <= m)

\* the weight networkx gives a step u-v of a multigraph for weight='length': the least
\* 'length' among the parallel edges (1 m where the attribute is missing)
weight(g, u, v) ==
    LET keydict == get_edge_data(g, u, v)
    IN  Min({Get(keydict[k], "length", 8) : k \in DOMAIN keydict})

Neighbors(g, u) == {v \in DOMAIN g.nodes : <<u, v>> \in DOMAIN g.adj}

\* Dijkstra's algorithm from a source: dist and pred over the nodes reached.  A node's
\* distance and predecessor change only on a strictly shorter path, and the closest
\* unfinished node (lowest id among equals) is finished next.
RECURSIVE dijkstra(_, _, _, _)
dijkstra(g, dist, pred, final) ==
    LET fringe == DOMAIN dist \ final
    IN  IF fringe = {} THEN [dist |-> dist, pred |-> pred]
        ELSE LET u == CHOOSE a \in fringe :
                          \A b \in fringe : dist[a] < dist[b] \/ (dist[a] = dist[b] /\ a <= b)
                 better == {v \in Neighbors(g, u) \ final :
                               v \notin DOMAIN dist \/ dist[u] + weight(g, u, v) < dist[v]}
             IN  dijkstra(g,
                          [v \in DOMAIN dist \cup better |->
                              IF v \in better THEN dist[u] + weight(g, u, v) ELSE dist[v]],
                          [v \in DOMAIN pred \cup better |->
                              IF v \in better THEN u ELSE pred[v]],
                          final \cup {u})

RECURSIVE path_to(_, _, _)
path_to(pred, source, v) ==
    IF v = source THEN <<v>> ELSE Append(path_to(pred, source, pred[v]), v)

\* the search from source, as both library calls below run it
search(g, source) == dijkstra(g, [v \in {source} |-> 0], [v \in {} |-> source], {})

PathOf(r, source, target) ==
    IF target \notin DOMAIN r.dist THEN [exc |-> "NetworkXNoPath", val |-> <<>>]
    ELSE [exc |-> "none", val |-> path_to(r.pred, source, target)]

LengthOf(r, target) ==
    IF target \notin DOMAIN r.dist THEN [exc |-> "NetworkXNoPath", val |-> 0]
    ELSE [exc |-> "none", val |-> r.dist[target]]

\* nx.shortest_path(G, source, target, weight='length') (main.py:75)
shortest_path(g, source, target) == PathOf(search(g, source), source, target)

\* nx.shortest_path_length(G, source, target, weight='length') (main.py:77)
shortest_path_length(g, source, target) == LengthOf(search(g, source), target)

(***************************************************************************)
(* get_path (main.py:65-130)                                               *)
(***************************************************************************)
UnnamedPath == [kind |-> "str", str |-> "Unnamed Path"]

\* main.py:92-93: the street name of the first edge
first_street_name(first_edge) ==
    LET street_name == Get(first_edge, "name", UnnamedPath)
    IN  IF street_name.kind = "list"
        THEN IF Len(street_name.list) = 0 THEN [exc |-> "IndexError", val |-> ""]
             ELSE [exc |-> "none", val |-> At(street_name.list, 0)]
        ELSE [exc |-> "none", val |-> street_name.str]

\* a variant of main.py:117 that takes the last alias
next_street_name_last(next_edge) ==
    LET next_street_name == Get(next_edge, "name", UnnamedPath)
    IN  IF next_street_name.kind = "list"
        THEN IF Len(next_street_name.list) = 0 THEN [exc |-> "IndexError", val |-> ""]
             ELSE [exc |-> "none", val |-> next_street_name.list[Len(next_street_name.list)]]
        ELSE [exc |-> "none", val |-> next_street_name.str]

\* main.py:116-117: the street name of the edge leaving an interior node
next_street_name_of(next_edge) ==
    LET next_street_name == Get(next_edge, "name", UnnamedPath)
    IN  IF next_street_name.kind = "list"
        THEN IF Len(next_street_name.list) = 0 THEN [exc |-> "IndexError", val |-> ""]
             ELSE [exc |-> "none", val |-> At(next_street_name.list, 0)]
        ELSE [exc |-> "none", val |-> next_street_name.str]

\* a variant of main.py:108 that subtracts the bearings the other way round
turn_angle_reversed(bearing1, bearing2) ==
    LET turn_angle == bearing1 - bearing2
        a == IF turn_angle > 180000 THEN turn_angle - 360000 ELSE turn_angle
    IN  IF a < -180000 THEN a + 360000 ELSE a

\* a variant of main.py:108-110 without the two corrections
turn_angle_raw(bearing1, bearing2) == bearing2 - bearing1

\* main.py:108-110
turn_angle_of(bearing1, bearing2) ==
    LET turn_angle == bearing2 - bearing1
        a == IF turn_angle > 180000 THEN turn_angle - 360000 ELSE turn_angle
    IN  IF a < -180000 THEN a + 360000 ELSE a

\* main.py:122: the instruction text of a turn
turn_text(turn_instruction, next_street_name) ==
    turn_instruction \o " onto <strong>" \o next_street_name \o "</strong>"

\* main.py:94: the instruction text of the first leg
head_text(street_name) == "Head toward <strong>" \o street_name \o "</strong>"

\* main.py:86-88: one copied attribute dict per step, the one under key 0
RECURSIVE route_edges_of(_, _, _)
route_edges_of(g, path_nodes, k) ==
    IF k >= Len(path_nodes) THEN [exc |-> "none", val |-> <<>>]
    ELSE LET keydict == get_edge_data(g, path_nodes[k], path_nodes[k + 1])
             rest == route_edges_of(g, path_nodes, k + 1)
         IN  IF 0 \notin DOMAIN keydict THEN [exc |-> "KeyError", val |-> <<>>]
             ELSE IF rest.exc # "none" THEN rest
             ELSE [exc |-> "none", val |-> <<keydict[0]>> \o rest.val]

\* a variant of main.py:81 that returns early for an empty path only
no_nodes(path_nodes) == Len(path_nodes) < 1

\* main.py:81: the early return
no_legs(path_nodes) == Len(path_nodes) < 2

\* main.py:91-94: the instruction of the first leg
initial_instruction(first_edge) ==
    LET street_name == first_street_name(first_edge)
    IN  [exc |-> street_name.exc,
         val |-> [instruction |-> head_text(street_name.val),
                  distance |-> round0(Get(first_edge, "length", 0))]]

\* a variant of main.py:120 that appends the instruction whatever the class
turn_step_unfiltered(bearing1, bearing2, next_edge) ==
    LET turn_angle == turn_angle_of(bearing1, bearing2)
        turn_instruction == get_turn_instruction(turn_angle)
        next_street_name == next_street_name_of(next_edge)
    IN  [exc |-> next_street_name.exc,
         bearing1 |-> bearing1, bearing2 |-> bearing2,
         turn_angle |-> turn_angle, turn_instruction |-> turn_instruction,
         next_street_name |-> next_street_name.val,
         appended |-> IF next_street_name.exc = "none"
                      THEN <<[instruction |-> turn_text(turn_instruction, next_street_name.val),
                              distance |-> round0(Get(next_edge, "length", 0))]>>
                      ELSE <<>>]

\* main.py:107-124: one iteration of the loop, from the two bearings on: the turn
\* angle, its class, the street name, and the directions it appends (one or none)
turn_step(bearing1, bearing2, next_edge) ==
    LET turn_angle == turn_angle_of(bearing1, bearing2)
        turn_instruction == get_turn_instruction(turn_angle)
        next_street_name == next_street_name_of(next_edge)
    IN  [exc |-> next_street_name.exc,
         bearing1 |-> bearing1, bearing2 |-> bearing2,
         turn_angle |-> turn_angle, turn_instruction |-> turn_instruction,
         next_street_name |-> next_street_name.val,
         appended |-> IF next_street_name.exc = "none" /\ turn_instruction # "Continue straight"
                      THEN <<[instruction |-> turn_text(turn_instruction, next_street_name.val),
                              distance |-> round0(Get(next_edge, "length", 0))]>>
                      ELSE <<>>]

\* main.py:99-105: the bearings into and out of the interior node at index i, and the
\* rest of the iteration
turn_at(g, path_nodes, route_edges, i) ==
    LET prev_node == g.nodes[At(path_nodes, i - 1)]
        curr_node == g.nodes[At(path_nodes, i)]
        next_node == g.nodes[At(path_nodes, i + 1)]
    IN  turn_step(calculate_bearing(prev_node.y, prev_node.x, curr_node.y, curr_node.x),
                  calculate_bearing(curr_node.y, curr_node.x, next_node.y, next_node.x),
                  At(route_edges, i))

\* acc after an iteration: the directions so far and what every iteration computed
Extend(acc, step) ==
    [exc |-> step.exc,
     directions |-> acc.directions \o step.appended,
     turns |-> Append(acc.turns, step)]

\* main.py:97-124: the loop over the interior nodes, from index i on
RECURSIVE turn_loop(_, _, _, _, _)
RECURSIVE loop_next(_, _, _, _, _)
turn_loop(g, path_nodes, route_edges, i, acc) ==
    IF i >= Len(path_nodes) - 1 THEN acc
    ELSE loop_next(g, path_nodes, route_edges, i,
                   Extend(acc, turn_at(g, path_nodes, route_edges, i)))

loop_next(g, path_nodes, route_edges, i, acc) ==
    IF acc.exc # "none" THEN acc
    ELSE turn_loop(g, path_nodes, route_edges, i + 1, acc)

\* an exception nothing catches: FastAPI answers 500
Unhandled == [status |-> 500, body |-> "Internal Server Error"]

Ok(body) == [status |-> 200, body |-> body]

Raise(f, exc) == [response |-> Unhandled, frame |-> [f EXCEPT !.exc = exc]]

\* the handler's locals before anything is assigned
NoFrame == [exc |-> "none", src_node |-> 0, dst_node |-> 0, path_nodes |-> <<>>,
            total_distance |-> 0, route_edges |-> <<>>, turns |-> <<>>]

\* main.py:126-130, after the loop
after_loop(f, path_coords, loop) ==
    IF loop.exc # "none" THEN Raise([f EXCEPT !.turns = loop.turns], loop.exc)
    ELSE [response |-> Ok([path |-> path_coords, distance |-> round2(f.total_distance),
                           directions |-> loop.directions]),
          frame |-> [f EXCEPT !.turns = loop.turns]]

\* main.py:94-124, after the first instruction is built
after_first(g, f, path_coords, first) ==
    IF first.exc # "none" THEN Raise(f, first.exc)
    ELSE after_loop(f, path_coords,
                    turn_loop(g, f.path_nodes, f.route_edges, 1,
                              [exc |-> "none", directions |-> <<first.val>>, turns |-> <<>>]))

\* main.py:90-94, after route_edges is built
after_edges(g, f, path_coords, re) ==
    IF re.exc # "none" THEN Raise(f, re.exc)
    ELSE IF Len(re.val) = 0 THEN Raise(f, "IndexError")
    ELSE after_first(g, [f EXCEPT !.route_edges = re.val], path_coords,
                     initial_instruction(At(re.val, 0)))

\* main.py:80-88, after the path, its coordinates and its length are known
after_search(g, f, path_coords) ==
    IF no_legs(f.path_nodes)
    THEN [response |-> Ok([path |-> path_coords, distance |-> round2(f.total_distance),
                           directions |-> <<>>]),
          frame |-> f]
    ELSE after_edges(g, f, path_coords, route_edges_of(g, f.path_nodes, 1))

\* main.py:76
path_coords_of(g, path_nodes) ==
    [k \in 1..Len(path_nodes) |-> <<g.nodes[path_nodes[k]].y, g.nodes[path_nodes[k]].x>>]

\* main.py:75-77
routed(g, f, sp, total_distance) ==
    IF sp.exc # "none" THEN Raise(f, sp.exc)
    ELSE after_search(g, [f EXCEPT !.path_nodes = sp.val, !.total_distance = total_distance.val],
                      path_coords_of(g, sp.val))

route(g, src_node, dst_node) ==
    routed(g, [NoFrame EXCEPT !.src_node = src_node, !.dst_node = dst_node],
           shortest_path(g, src_node, dst_node),
           shortest_path_length(g, src_node, dst_node))

\* the whole handler after await request.json() (main.py:68-130): the response and the
\* locals at its end
get_path(g, data) ==
    LET src_coords == <<data.source.lat, data.source.lon>>
        dst_coords == <<data.target.lat, data.target.lon>>
    IN  route(g, nearest_nodes(g, src_coords[2], src_coords[1]),
                 nearest_nodes(g, dst_coords[2], dst_coords[1]))

(***************************************************************************)
(* Bounds                                                                  *)
(***************************************************************************)
MaxReq == 2       \* requests in flight at once (SpecConc)

MaxAliases == 2   \* longest list of street-name aliases on an edge

(***************************************************************************)
(* The graphs start-up may load.  ox.graph_from_place (main.py:20) is an   *)
(* external data source; the model draws its result from the street        *)
(* networks below: three or four nodes on one of three layouts, every      *)
(* candidate street absent or present with one of two lengths, the street  *)
(* 1-2 possibly doubled (two parallel edges, keys 0 and 1), names absent,  *)
(* single or alias lists.  No turn of these layouts lies within half a     *)
(* degree of a class boundary other than +-180 and 0 exactly.              *)
(* No two routes between the same nodes are equally long, so the path does *)
(* not depend on how the library breaks ties.                              *)
(***************************************************************************)
Layouts ==
    << << <<0, 0>>, <<0, 1>>, <<1, 1>>, <<2, 1>> >>,
       << <<0, 0>>, <<0, 1>>, <<0, 3>>, <<1, 3>> >>,
       << <<0, 0>>, <<1, 1>>, <<3, 2>>, <<1, 2>> >> >>

\* the candidate streets, and the two lengths each may have (eighths of a metre)
Streets == << <<1, 2>>, <<2, 3>>, <<3, 4>>, <<1, 4>>, <<2, 4>> >>

StreetLengths == << <<800, 1204>>, <<640, 325>>, <<484, 1000>>, <<500, 1924>>, <<1130, 300>> >>

StreetNames == <<"Oak St", "Pine St", "Elm St", "Ring Rd", "Hall Ln">>

Aliases(name, n) ==
    [j \in 1..n |-> IF j = 1 THEN name ELSE name \o " alias " \o ToString(j)]

\* which 'name' street s has under naming scheme k (0 a single name, 1 an alias list,
\* 2 none): scheme 0 gives every street a single name, schemes 1 and 2 rotate the three
NameKind(s, k) == IF k = 0 THEN 0 ELSE (s + k - 1) % 3

EdgeData(s, which, k, n) ==
    IF NameKind(s, k) = 0
    THEN [length |-> StreetLengths[s][which], name |-> [kind |-> "str", str |-> StreetNames[s]]]
    ELSE IF NameKind(s, k) = 1
    THEN [length |-> StreetLengths[s][which],
          name |-> [kind |-> "list", list |-> Aliases(StreetNames[s], n)]]
    ELSE [length |-> StreetLengths[s][which]]

\* what a street can be: 0 absent, 1 / 2 one edge of the first / second length,
\* 3 / 4 two parallel edges (key 0 of the first / second length, key 1 of the other);
\* only street 1 is ever doubled, and the two chords 1-4 and 2-4 have their first length
StreetOptions(s) == IF s = 1 THEN 0..4 ELSE IF s <= 3 THEN 0..2 ELSE 0..1

KeyDict(s, opt, k, n) ==
    IF opt \in {1, 2} THEN [key \in {0} |-> EdgeData(s, opt, k, n)]
    ELSE [key \in {0, 1} |-> EdgeData(s, IF key = 0 THEN opt - 2 ELSE 5 - opt, k, n)]

StreetsOf(nn) == {s \in 1..Len(Streets) : Streets[s][1] <= nn /\ Streets[s][2] <= nn}

\* the directed multigraph of nn nodes on layout l with street choice c and naming k
MkGraph(nn, l, c, k, n) ==
    LET present == {s \in StreetsOf(nn) : c[s] # 0}
        street(e) == CHOOSE s \in present : Streets[s] = e
    IN  [nodes |-> [v \in 1..nn |-> [y |-> Layouts[l][v][1], x |-> Layouts[l][v][2]]],
         adj |-> [e \in {Streets[s] : s \in present} |-> KeyDict(street(e), c[street(e)], k, n)]]

StreetChoices(nn) ==
    {c \in [StreetsOf(nn) -> 0..4] : \A s \in StreetsOf(nn) : c[s] \in StreetOptions(s)}

graph_from_place ==
    UNION {{MkGraph(nn, l, c, k, MaxAliases) :
                l \in 1..Len(Layouts), c \in StreetChoices(nn), k \in 0..2} : nn \in {3, 4}}

\* a small part of them, for the runs with several requests in flight
graph_from_place_small ==
    {MkGraph(3, 1, c, 1, MaxAliases) : c \in {d \in StreetChoices(3) : d[1] \in {3, 4}}}

(***************************************************************************)
(* Requests.  A client sends any two coordinates; the model sends the      *)
(* coordinates of the nodes and one point off the network.                 *)
(***************************************************************************)
\* one node of every layout is strictly nearest to it
OffNetwork == [lat |-> 3, lon |-> -1]

Points(g) == {[lat |-> g.nodes[v].y, lon |-> g.nodes[v].x] : v \in DOMAIN g.nodes}
             \cup {OffNetwork}

Requests(g) == {[source |-> a, target |-> b] : a \in Points(g), b \in Points(g)}

Slots == DOMAIN pc

(***************************************************************************)
(* The state after start-up (main.py:18-22) and the steps of a request     *)
(***************************************************************************)
Idle(slots) ==
    /\ pc = [p \in slots |-> "idle"]
    /\ req = [p \in slots |-> None]
    /\ resp = [p \in slots |-> None]
    /\ frame = [p \in slots |-> None]

HarnessOff == tphase = "off" /\ tin = None /\ tout = None

Init ==
    /\ G \in {to_undirected(D) : D \in graph_from_place}
    /\ G_loaded = G
    /\ Idle({1})
    /\ HarnessOff

InitConc ==
    /\ G \in {to_undirected(D) : D \in graph_from_place_small}
    /\ G_loaded = G
    /\ Idle(1..MaxReq)
    /\ HarnessOff

\* main.py:67: await request.json() hands the body to the handler
Receive(p) ==
    /\ pc[p] = "idle"
    /\ \E data \in Requests(G) :
          req' = [req EXCEPT ![p] = data]
    /\ pc' = [pc EXCEPT ![p] = "received"]
    /\ UNCHANGED <<G, G_loaded, resp, frame, tphase, tin, tout>>

Return(p, r) ==
    /\ resp' = [resp EXCEPT ![p] = r.response]
    /\ frame' = [frame EXCEPT ![p] = r.frame]
    /\ pc' = [pc EXCEPT ![p] = "done"]

\* a variant of main.py:87 without .copy() whose handler then writes the resolved
\* street name into the edge data it was handed, which is G's own
HandleInPlace(p) ==
    /\ pc[p] = "received"
    /\ Return(p, get_path(G, req[p]))
    /\ LET nodes == get_path(G, req[p]).frame.path_nodes
           first == IF Len(nodes) < 2 THEN {}
                    ELSE {<<nodes[1], nodes[2]>>, <<nodes[2], nodes[1]>>}
       IN  G' = [G EXCEPT !.adj =
                    [e \in DOMAIN G.adj |->
                        IF e \in first
                        THEN [k \in DOMAIN G.adj[e] |->
                                 IF k = 0
                                 THEN [length |-> G.adj[e][k].length,
                                       name |-> [kind |-> "str",
                                                 str |-> first_street_name(G.adj[e][k]).val]]
                                 ELSE G.adj[e][k]]
                        ELSE G.adj[e]]]
    /\ UNCHANGED <<G_loaded, req, tphase, tin, tout>>

\* main.py:68-130: the handler has no further await, so the rest runs as one step;
\* it only reads G
Handle(p) ==
    /\ pc[p] = "received"
    /\ Return(p, get_path(G, req[p]))
    /\ UNCHANGED <<G, G_loaded, req, tphase, tin, tout>>

Next ==
    \/ \E p \in Slots : Receive(p)
    \/ \E p \in Slots : Handle(p)

Spec == Init /\ [][Next]_vars

SpecConc == InitConc /\ [][Next]_vars

(***************************************************************************)
(* The arithmetic of one turn on its own: main.py:91-94 and 107-124        *)
(* applied to any two bearings and any edge data.                          *)
(***************************************************************************)
\* turn angles on and next to every class boundary, and every 15 degrees between
ProbeAngles ==
    LET edge == {20000, 65000, 135000, 180000}
        near == {t + d : t \in edge, d \in {-1, 0, 1}} \ {180001}
        pos == near \cup {15000 * j : j \in 0..12} \cup {160000}
    IN  pos \cup {-a : a \in pos}

ProbeBearings == {45000 * j : j \in 0..7} \cup {1, 359999}

ProbeEdges ==
    UNION {{[length |-> len], [length |-> len, name |-> [kind |-> "str", str |-> "Elm St"]]}
           \cup {[length |-> len, name |-> [kind |-> "list", list |-> Aliases("Elm St", n)]] :
                    n \in 0..MaxAliases} : len \in {484, 325}}

InitTurn ==
    /\ G = [nodes |-> <<>>, adj |-> <<>>]
    /\ G_loaded = G
    /\ Idle({})
    /\ tphase = "input"
    /\ tin \in {[bearing1 |-> b, bearing2 |-> (b + a + 360000) % 360000, edge |-> e] :
                    b \in ProbeBearings, a \in ProbeAngles, e \in ProbeEdges}
    /\ tout = None

\* main.py:91-94 on the edge
HeadStep ==
    /\ tphase = "input"
    /\ tout' = [head |-> initial_instruction(tin.edge)]
    /\ tphase' = "head"
    /\ UNCHANGED <<G, G_loaded, pc, req, resp, frame, tin>>

\* main.py:107-124 on the bearings and the edge
TurnStep ==
    /\ tphase = "head"
    /\ tout' = [head |-> tout.head, turn |-> turn_step(tin.bearing1, tin.bearing2, tin.edge)]
    /\ tphase' = "turn"
    /\ UNCHANGED <<G, G_loaded, pc, req, resp, frame, tin>>

NextTurn == HeadStep \/ TurnStep

SpecTurn == InitTurn /\ [][NextTurn]_vars

(***************************************************************************)
(* Vocabulary of the properties                                            *)
(***************************************************************************)
Done(p) == pc[p] = "done"

Served(p) == Done(p) /\ resp[p].status = 200

\* the street-name rule: no name, an alias list, a single name
StreetNameRule(edge) ==
    IF "name" \notin DOMAIN edge THEN "Unnamed Path"
    ELSE IF edge.name.kind = "list" THEN edge.name.list[1]
    ELSE edge.name.str

HasName(edge) == "name" \in DOMAIN edge

EmptyAliasList(edge) ==
    HasName(edge) /\ edge.name.kind = "list" /\ Len(edge.name.list) = 0

\* the nodes joined to a by streets
RECURSIVE Component(_, _)
Component(g, seen) ==
    LET more == {v \in DOMAIN g.nodes : \E u \in seen : <<u, v>> \in DOMAIN g.adj} \ seen
    IN  IF more = {} THEN seen ELSE Component(g, seen \cup more)

\* the least 'length' among the parallel edges between u and v
LeastLength(g, u, v) ==
    LET d == g.adj[<<u, v>>]
    IN  CHOOSE a \in {d[k].length : k \in DOMAIN d} : \A k \in DOMAIN d : a <= d[k].length

\* the total lengths of the walks from a to b that visit no node twice and avoid `seen`,
\* over every choice among parallel edges
RECURSIVE WalkLengths(_, _, _, _)
WalkLengths(g, a, b, seen) ==
    IF a = b THEN {0}
    ELSE UNION {UNION {{g.adj[<<a, v>>][k].length + c :
                           c \in WalkLengths(g, v, b, seen \cup {v})} :
                       k \in DOMAIN g.adj[<<a, v>>]} :
                v \in {w \in DOMAIN g.nodes \ seen : <<a, w>> \in DOMAIN g.adj}}

RECURSIVE SumLengths(_)
SumLengths(edges) ==
    IF edges = <<>> THEN 0 ELSE Head(edges).length + SumLengths(Tail(edges))

Swapped(data) == [source |-> data.target, target |-> data.source]

(***************************************************************************)
(* C1  End-to-end scenario                                                 *)
(***************************************************************************)
ScenarioGraph ==
    [nodes |-> <<[y |-> 0, x |-> 0], [y |-> 0, x |-> 1], [y |-> 1, x |-> 1]>>,
     adj |-> [e \in {<<1, 2>>, <<2, 1>>, <<2, 3>>, <<3, 2>>} |->
                IF e \in {<<1, 2>>, <<2, 1>>}
                THEN [k \in {0} |-> [length |-> 800, name |-> [kind |-> "str", str |-> "Oak St"]]]
                ELSE [k \in {0} |-> [length |-> 640, name |-> [kind |-> "str", str |-> "Pine St"]]]]]

ScenarioRequest == [source |-> [lat |-> 0, lon |-> 0], target |-> [lat |-> 1, lon |-> 1]]

ScenarioRun(p) == G = ScenarioGraph /\ Done(p) /\ req[p] = ScenarioRequest

ScenarioPath == << <<0, 0>>, <<0, 1>>, <<1, 1>> >>

\* C1 as claimed: on the scenario graph the request N1 -> N3 returns the path N1, N2,
\* N3, distance 180.0 and the directions "Head toward Oak St" (100), "Turn right onto
\* Pine St" (80).
C1_AsClaimed ==
    \A p \in Slots : ScenarioRun(p) =>
        resp[p] = Ok([path |-> ScenarioPath, distance |-> 18000,
                      directions |-> <<[instruction |-> "Head toward Oak St", distance |-> 100],
                                       [instruction |-> "Turn right onto Pine St",
                                        distance |-> 80]>>])

\* C1 amended: the same request returns the path N1, N2, N3, distance 180.0 and the
\* directions "Head toward <strong>Oak St</strong>" (100), "Turn left onto
\* <strong>Pine St</strong>" (80): heading east and then north is a left turn of 90
\* degrees.
C1_Scenario ==
    \A p \in Slots : ScenarioRun(p) =>
        resp[p] = Ok([path |-> ScenarioPath, distance |-> 18000,
                      directions |-> <<[instruction |-> "Head toward <strong>Oak St</strong>",
                                        distance |-> 100],
                                       [instruction |-> "Turn left onto <strong>Pine St</strong>",
                                        distance |-> 80]>>])

C1_Witness == \E p \in Slots : ScenarioRun(p) /\ frame[p].path_nodes = <<1, 2, 3>>

(***************************************************************************)
(* C2  No route between components                                         *)
(***************************************************************************)
Disconnected(p) == frame[p].dst_node \notin Component(G, {frame[p].src_node})

\* C2: a request whose source and destination nodes lie in different components ends
\* in a structured "no route" failure: not a success, and not the generic answer given
\* to an exception nothing handled.
C2_NoRouteReported ==
    \A p \in Slots : (Done(p) /\ Disconnected(p)) =>
        (resp[p].status # 200 /\ resp[p] # Unhandled)

(***************************************************************************)
(* C3  Parallel edges                                                      *)
(***************************************************************************)
\* C3: for every step of a returned path the edge behind its instruction is a shortest
\* edge between the two nodes, so the lengths of the edges taken sum to the distance.
C3_MinLengthEdgeUsed ==
    \A p \in Slots : (Served(p) /\ Len(frame[p].path_nodes) >= 2) =>
        /\ \A k \in 1..Len(frame[p].route_edges) :
              frame[p].route_edges[k].length
                 = LeastLength(G, frame[p].path_nodes[k], frame[p].path_nodes[k + 1])
        /\ SumLengths(frame[p].route_edges) = frame[p].total_distance

(***************************************************************************)
(* C4  Range of the turn angle                                             *)
(***************************************************************************)
Turned == tphase = "turn"

Congruent(a, b) == (a - b) % 360000 = 0

\* C4 as claimed: the turn angle lies in (-180, 180] and is congruent to
\* bearing2 - bearing1 modulo 360.
C4_AsClaimed ==
    Turned => /\ tout.turn.turn_angle > -180000
              /\ tout.turn.turn_angle <= 180000
              /\ Congruent(tout.turn.turn_angle, tin.bearing2 - tin.bearing1)

\* C4 amended: the turn angle lies in the closed interval [-180, 180], is -180 exactly
\* when bearing2 - bearing1 is -180, and is congruent to bearing2 - bearing1 modulo 360.
C4_TurnAngleRange ==
    Turned => /\ tout.turn.turn_angle >= -180000
              /\ tout.turn.turn_angle <= 180000
              /\ (tout.turn.turn_angle = -180000) <=> (tin.bearing2 - tin.bearing1 = -180000)
              /\ Congruent(tout.turn.turn_angle, tin.bearing2 - tin.bearing1)

C4_Witness ==
    /\ Turned /\ tin.bearing1 = 180000 /\ tin.bearing2 = 0
    /\ tout.turn.turn_angle = -180000

(***************************************************************************)
(* C5  Turn classes and instruction text                                   *)
(***************************************************************************)
\* the threshold table: the classes whose range holds angle a
TableRows(a, straight, sr, r, xr, sl, l, xl) ==
    {c \in {straight, sr, r, xr, sl, l, xl} :
        \/ c = straight /\ -20000 <= a /\ a <= 20000
        \/ c = sr /\ 20000 < a /\ a <= 65000
        \/ c = r /\ 65000 < a /\ a <= 135000
        \/ c = xr /\ 135000 < a /\ a <= 180000
        \/ c = sl /\ -65000 <= a /\ a < -20000
        \/ c = l /\ -135000 <= a /\ a < -65000
        \/ c = xl /\ -180000 <= a /\ a < -135000}

ClaimedRows(a) ==
    TableRows(a, "Continue straight", "Slight right", "Turn right", "Sharp right",
              "Slight left", "Turn left", "Sharp left")

CodeRows(a) ==
    TableRows(a, "Continue straight", "Make a slight right", "Turn right",
              "Make a sharp right", "Make a slight left", "Turn left", "Make a sharp left")

TurnResolved == Turned /\ ~EmptyAliasList(tin.edge)

\* what the loop body appends for class c
Emitted(c, text) ==
    IF c = "Continue straight" THEN <<>>
    ELSE <<[instruction |-> text, distance |-> RoundHalfEven(tin.edge.length, 8)]>>

\* C5 as claimed: every angle has exactly one class of the table, named "Slight right",
\* "Turn right", "Sharp right", "Slight left", "Turn left", "Sharp left", and the text
\* emitted is "<class> onto <street name>".
C5_AsClaimed ==
    TurnResolved =>
        /\ ClaimedRows(tout.turn.turn_angle) = {tout.turn.turn_instruction}
        /\ tout.turn.appended
             = Emitted(tout.turn.turn_instruction,
                       tout.turn.turn_instruction \o " onto " \o StreetNameRule(tin.edge))

\* C5 amended: every angle in [-180, 180] has exactly one class of the table; the
\* classes read "Make a slight right", "Turn right", "Make a sharp right", "Make a
\* slight left", "Turn left", "Make a sharp left"; a class other than "Continue
\* straight" emits "<class> onto <strong><street name></strong>".  Bearings 0 and 45
\* give "Make a slight right"; bearings 0 and 200 give -160 and "Make a sharp left".
C5_TurnTable ==
    TurnResolved =>
        /\ CodeRows(tout.turn.turn_angle) = {tout.turn.turn_instruction}
        /\ tout.turn.appended
             = Emitted(tout.turn.turn_instruction,
                       tout.turn.turn_instruction \o " onto <strong>"
                          \o StreetNameRule(tin.edge) \o "</strong>")
        /\ (tin.bearing1 = 0 /\ tin.bearing2 = 45000)
              => tout.turn.turn_instruction = "Make a slight right"
        /\ (tin.bearing1 = 0 /\ tin.bearing2 = 200000)
              => /\ tout.turn.turn_angle = -160000
                 /\ tout.turn.turn_instruction = "Make a sharp left"

C5_Witness ==
    /\ TurnResolved /\ tin.bearing1 = 0 /\ tin.bearing2 = 200000
    /\ tout.turn.turn_instruction = "Make a sharp left"
    /\ Len(tout.turn.appended) = 1

(***************************************************************************)
(* C6  Symmetry of the distance                                            *)
(***************************************************************************)
\* C6: for a served request between nodes A and B, the request from B's point to A's
\* point is served with the same distance, and the distance is the least total length
\* of a walk between A and B.
C6_Symmetric ==
    \A p \in Slots : Served(p) =>
        /\ get_path(G, Swapped(req[p])).response.status = 200
        /\ get_path(G, Swapped(req[p])).response.body.distance = resp[p].body.distance
        /\ LET walks == WalkLengths(G, frame[p].src_node, frame[p].dst_node,
                                    {frame[p].src_node})
           IN  /\ frame[p].total_distance \in walks
               /\ \A c \in walks : frame[p].total_distance <= c
        /\ resp[p].body.distance = RoundHalfEven(frame[p].total_distance * 100, 8)

\* a served route of two streets between nodes that a longer direct street also joins
C6_Witness ==
    \E p \in Slots :
        /\ Served(p) /\ Len(frame[p].path_nodes) = 3
        /\ <<frame[p].src_node, frame[p].dst_node>> \in DOMAIN G.adj
        /\ frame[p].total_distance < LeastLength(G, frame[p].src_node, frame[p].dst_node)

(***************************************************************************)
(* C7  Source and destination on the same node                             *)
(***************************************************************************)
SameNode(p) == Done(p) /\ frame[p].src_node = frame[p].dst_node

\* C7: a request whose two points resolve to one node is served with that node's
\* coordinate alone, distance 0 and no directions; and whenever the path has fewer than
\* two nodes the handler returns no directions without looking up an edge or running
\* the turn loop.
C7_SingleNode ==
    \A p \in Slots :
        /\ SameNode(p) =>
              resp[p] = Ok([path |-> << <<G.nodes[frame[p].src_node].y,
                                          G.nodes[frame[p].src_node].x>> >>,
                            distance |-> 0, directions |-> <<>>])
        /\ (Done(p) /\ frame[p].exc # "NetworkXNoPath" /\ Len(frame[p].path_nodes) < 2) =>
              /\ resp[p].status = 200
              /\ resp[p].body.directions = <<>>
              /\ frame[p].route_edges = <<>>
              /\ frame[p].turns = <<>>

\* two different points that resolve to one node
C7_Witness ==
    \E p \in Slots : SameNode(p) /\ req[p].source # req[p].target /\ resp[p].status = 200

(***************************************************************************)
(* C8  No shared mutable state                                             *)
(***************************************************************************)
\* C8: whatever the interleaving of the requests, G stays the graph loaded at start-up,
\* every finished request holds the response it gets when run alone on that graph, and
\* equal requests hold equal responses.
C8_Isolation ==
    /\ G = G_loaded
    /\ \A p \in Slots : Done(p) => resp[p] = get_path(G_loaded, req[p]).response
    /\ \A p, q \in Slots : (Done(p) /\ Done(q) /\ req[p] = req[q]) => resp[p] = resp[q]

\* two finished requests for the same route over the doubled, alias-named street
C8_Witness ==
    \E p, q \in Slots :
        /\ p # q /\ Served(p) /\ Served(q) /\ req[p] = req[q]
        /\ Len(resp[p].body.directions) = 2

(***************************************************************************)
(* C9  Shape of the directions                                             *)
(***************************************************************************)
\* the edge the handler reads for the step out of the node at index i (from 0)
StepEdge(p, i) ==
    G.adj[<<frame[p].path_nodes[i + 1], frame[p].path_nodes[i + 2]>>][0]

NodeAt(p, i) == G.nodes[frame[p].path_nodes[i + 1]]

TurnClassAt(p, i) ==
    CHOOSE c \in CodeRows(
        LET b1 == calculate_bearing(NodeAt(p, i - 1).y, NodeAt(p, i - 1).x,
                                    NodeAt(p, i).y, NodeAt(p, i).x)
            b2 == calculate_bearing(NodeAt(p, i).y, NodeAt(p, i).x,
                                    NodeAt(p, i + 1).y, NodeAt(p, i + 1).x)
            d == b2 - b1
        IN  IF d > 180000 THEN d - 360000 ELSE IF d < -180000 THEN d + 360000 ELSE d) : TRUE

\* the interior nodes (indices from 0) whose turn is not "Continue straight"
TurningNodes(p) ==
    {i \in 1..(Len(frame[p].path_nodes) - 2) : TurnClassAt(p, i) # "Continue straight"}

Routed(p) == Served(p) /\ Len(frame[p].path_nodes) >= 2

====
